---------------------------- MODULE Spec2Model ----------------------------
(***************************************************************************)
(* The request dispatch and codec layer of ldk-server: the client stubs    *)
(* of client/src/client.rs (LdkNodeServerClient) and the hyper service of  *)
(* server/src/service.rs (NodeService, handle_request).                    *)
(*                                                                         *)
(* A text (Rust String / &str) is a sequence of one-character strings; a   *)
(* byte buffer (Vec<u8> / Bytes) is a sequence of numbers 0..255.          *)
(***************************************************************************)
EXTENDS Integers, Sequences, FiniteSets, TLC

(* ------------------------------ bounds -------------------------------- *)

\* number of calls (client stub calls or raw inbound requests) in one run
NCalls == 1

\* number of concurrent stub calls, each to its own operation
NConc == 2

\* the field of a request or response message ranges over 0..MaxVal
MaxVal == 1

(* ------------------------------- texts -------------------------------- *)

Digits == << "0", "1", "2", "3", "4", "5", "6", "7", "8", "9" >>

Upper ==
    << "A", "B", "C", "D", "E", "F", "G", "H", "I", "J", "K", "L", "M",
       "N", "O", "P", "Q", "R", "S", "T", "U", "V", "W", "X", "Y", "Z" >>

Lower ==
    << "a", "b", "c", "d", "e", "f", "g", "h", "i", "j", "k", "l", "m",
       "n", "o", "p", "q", "r", "s", "t", "u", "v", "w", "x", "y", "z" >>

\* the UTF-8 codes of the ASCII characters the texts of this layer use
OrdTable ==
    [ch \in { " ", "-", ".", "/", ":" } |->
        CASE ch = " " -> 32
          [] ch = "-" -> 45
          [] ch = "." -> 46
          [] ch = "/" -> 47
          [] ch = ":" -> 58]
    @@ [ch \in { Digits[i] : i \in 1..Len(Digits) } |->
          47 + (CHOOSE i \in 1..Len(Digits) : Digits[i] = ch)]
    @@ [ch \in { Upper[i] : i \in 1..Len(Upper) } |->
          64 + (CHOOSE i \in 1..Len(Upper) : Upper[i] = ch)]
    @@ [ch \in { Lower[i] : i \in 1..Len(Lower) } |->
          96 + (CHOOSE i \in 1..Len(Lower) : Lower[i] = ch)]

Ord(ch) == OrdTable[ch]

\* String::into_bytes / str::as_bytes
into_bytes(text) == [i \in 1..Len(text) |-> Ord(text[i])]

(* --------------------------- client constants ------------------------- *)

\* "application/octet-stream"
APPLICATION_OCTET_STREAM ==
    << "a", "p", "p", "l", "i", "c", "a", "t", "i", "o", "n", "/", "o",
       "c", "t", "e", "t", "-", "s", "t", "r", "e", "a", "m" >>

\* "OnchainReceive"
ONCHAIN_RECEIVE_PATH ==
    << "O", "n", "c", "h", "a", "i", "n", "R", "e", "c", "e", "i", "v",
       "e" >>

\* "OnchainSend"
ONCHAIN_SEND_PATH ==
    << "O", "n", "c", "h", "a", "i", "n", "S", "e", "n", "d" >>

\* "Bolt11Receive"
BOLT11_RECEIVE_PATH ==
    << "B", "o", "l", "t", "1", "1", "R", "e", "c", "e", "i", "v", "e" >>

\* "Bolt11Send"
BOLT11_SEND_PATH ==
    << "B", "o", "l", "t", "1", "1", "S", "e", "n", "d" >>

\* "Bolt12Receive"
BOLT12_RECEIVE_PATH ==
    << "B", "o", "l", "t", "1", "2", "R", "e", "c", "e", "i", "v", "e" >>

\* "Bolt12Send"
BOLT12_SEND_PATH ==
    << "B", "o", "l", "t", "1", "2", "S", "e", "n", "d" >>

\* "OpenChannel"
OPEN_CHANNEL_PATH ==
    << "O", "p", "e", "n", "C", "h", "a", "n", "n", "e", "l" >>

\* "CloseChannel"
CLOSE_CHANNEL_PATH ==
    << "C", "l", "o", "s", "e", "C", "h", "a", "n", "n", "e", "l" >>

\* "ListChannels"
LIST_CHANNELS_PATH ==
    << "L", "i", "s", "t", "C", "h", "a", "n", "n", "e", "l", "s" >>

\* the operations, named after the client's stub methods
Ops ==
    { "onchain_receive", "onchain_send", "bolt11_receive", "bolt11_send",
      "bolt12_receive", "bolt12_send", "open_channel", "close_channel",
      "list_channels" }

\* the path constant each stub method formats into its url
StubPath(o) ==
    CASE o = "onchain_receive" -> ONCHAIN_RECEIVE_PATH
      [] o = "onchain_send"    -> ONCHAIN_SEND_PATH
      [] o = "bolt11_receive"  -> BOLT11_RECEIVE_PATH
      [] o = "bolt11_send"     -> BOLT11_SEND_PATH
      [] o = "bolt12_receive"  -> BOLT12_RECEIVE_PATH
      [] o = "bolt12_send"     -> BOLT12_SEND_PATH
      [] o = "open_channel"    -> OPEN_CHANNEL_PATH
      [] o = "close_channel"   -> CLOSE_CHANNEL_PATH
      [] o = "list_channels"   -> LIST_CHANNELS_PATH

\* the base_url the client was constructed with (host:port)
\* "h:1"
BaseUrl ==
    << "h", ":", "1" >>

\* "http://"
HttpScheme ==
    << "h", "t", "t", "p", ":", "/", "/" >>

\* format!("http://{}/{PATH}", self.base_url)
StubUrl(o) == HttpScheme \o BaseUrl \o << "/" >> \o StubPath(o)

\* index of the first "/" of text at or after position i, Len(text)+1 if none
RECURSIVE FindSlash(_, _)
FindSlash(text, i) ==
    IF i > Len(text) THEN i
    ELSE IF text[i] = "/" THEN i
    ELSE FindSlash(text, i + 1)

\* Uri::path of the request the transport builds from an absolute http url:
\* everything from the first "/" after the authority ("/" when there is none)
UriPath(url) ==
    LET start == FindSlash(url, Len(HttpScheme) + 1)
    IN  IF start > Len(url) THEN << "/" >>
        ELSE SubSeq(url, start, Len(url))

(* --------------------------- server constants ------------------------- *)

\* crate::api::*: the paths the service matches on
\* "/OnchainReceive"
API_ONCHAIN_RECEIVE_PATH ==
    << "/", "O", "n", "c", "h", "a", "i", "n", "R", "e", "c", "e", "i",
       "v", "e" >>

\* "/OnchainSend"
API_ONCHAIN_SEND_PATH ==
    << "/", "O", "n", "c", "h", "a", "i", "n", "S", "e", "n", "d" >>

\* "/Bolt11Receive"
API_BOLT11_RECEIVE_PATH ==
    << "/", "B", "o", "l", "t", "1", "1", "R", "e", "c", "e", "i", "v",
       "e" >>

\* "Unknown request: "
UnknownRequestPrefix ==
    << "U", "n", "k", "n", "o", "w", "n", " ", "r", "e", "q", "u", "e",
       "s", "t", ":", " " >>

\* "Error parsing request"
ErrorParsingRequest ==
    << "E", "r", "r", "o", "r", " ", "p", "a", "r", "s", "i", "n", "g",
       " ", "r", "e", "q", "u", "e", "s", "t" >>

\* "Unknown Error"
UnknownError ==
    << "U", "n", "k", "n", "o", "w", "n", " ", "E", "r", "r", "o", "r" >>

BAD_REQUEST == 400

INTERNAL_SERVER_ERROR == 500

\* the status of Response::builder() when none is set
OK == 200

(* ------------------------------- codec -------------------------------- *)

\* A message (prost::Message) of one operation: its request or its response.
\* Every message type carries one unsigned field, number FieldNo, wire type
\* varint; proto3 leaves a field that holds its default (0) off the wire.
Dirs == { "Request", "Response" }

Msg(o, d, v) == [op |-> o, dir |-> d, value |-> v]

NoMsg == Msg("none", "none", 0)

Values == 0..MaxVal

Requests(o) == { Msg(o, "Request", v) : v \in Values }

Responses(o) == { Msg(o, "Response", v) : v \in Values }

FieldNo == 1

WireVarint == 0

WireFixed64 == 1

WireLengthDelimited == 2

WireFixed32 == 5

\* base-128 varint, least significant group first
RECURSIVE EncodeVarint(_)
EncodeVarint(n) ==
    IF n < 128 THEN << n >>
    ELSE << 128 + (n % 128) >> \o EncodeVarint(n \div 128)

\* Message::encode_to_vec
Encode(m) ==
    IF m.value = 0 THEN << >>
    ELSE EncodeVarint(FieldNo * 8 + WireVarint) \o EncodeVarint(m.value)

\* reads one varint of bytes at position i:
\* [ok, value, next] with next the position after it
RECURSIVE DecodeVarint(_, _)
DecodeVarint(bytes, i) ==
    IF i > Len(bytes) THEN [ok |-> FALSE, value |-> 0, next |-> i]
    ELSE IF bytes[i] < 128 THEN [ok |-> TRUE, value |-> bytes[i], next |-> i + 1]
    ELSE LET rest == DecodeVarint(bytes, i + 1)
         IN  [ok    |-> rest.ok,
              value |-> (bytes[i] - 128) + 128 * rest.value,
              next  |-> rest.next]

\* position after a field of wire type wt that starts at i, 0 when the
\* field is truncated or the wire type is not one of the four handled
SkipField(bytes, wt, i) ==
    CASE wt = WireVarint ->
            LET v == DecodeVarint(bytes, i)
            IN  IF v.ok THEN v.next ELSE 0
      [] wt = WireFixed64 ->
            IF i + 8 <= Len(bytes) + 1 THEN i + 8 ELSE 0
      [] wt = WireFixed32 ->
            IF i + 4 <= Len(bytes) + 1 THEN i + 4 ELSE 0
      [] wt = WireLengthDelimited ->
            LET n == DecodeVarint(bytes, i)
            IN  IF n.ok /\ n.next + n.value <= Len(bytes) + 1
                THEN n.next + n.value ELSE 0
      [] OTHER -> 0

\* the merge loop of Message::decode from position i on, value being the
\* field as merged so far: [ok, value]
RECURSIVE MergeFrom(_, _, _)
MergeFrom(bytes, i, value) ==
    IF i > Len(bytes) THEN [ok |-> TRUE, value |-> value]
    ELSE
      LET key == DecodeVarint(bytes, i)
          field == key.value \div 8
          wt == key.value % 8
      IN  IF ~key.ok \/ field = 0 THEN [ok |-> FALSE, value |-> 0]
          ELSE IF field = FieldNo
          THEN IF wt # WireVarint THEN [ok |-> FALSE, value |-> 0]
               ELSE LET v == DecodeVarint(bytes, key.next)
                    IN  IF v.ok THEN MergeFrom(bytes, v.next, v.value)
                        ELSE [ok |-> FALSE, value |-> 0]
          ELSE LET next == SkipField(bytes, wt, key.next)
               IN  IF next = 0 THEN [ok |-> FALSE, value |-> 0]
                   ELSE MergeFrom(bytes, next, value)

\* T::decode for the message type (o, d): [ok, msg], msg = NoMsg on a
\* DecodeError
Decode(o, d, bytes) ==
    LET r == MergeFrom(bytes, 1, 0)
    IN  IF r.ok THEN [ok |-> TRUE, msg |-> Msg(o, d, r.value)]
        ELSE [ok |-> FALSE, msg |-> NoMsg]

(* ------------------------------ inputs -------------------------------- *)

\* ldk_node::NodeError values a handler may return, with their Display text
NodeErrors == { "InvalidAddress", "ChannelClosingFailed" }

\* "The given address is invalid."
InvalidAddressText ==
    << "T", "h", "e", " ", "g", "i", "v", "e", "n", " ", "a", "d", "d",
       "r", "e", "s", "s", " ", "i", "s", " ", "i", "n", "v", "a", "l",
       "i", "d", "." >>

\* "Failed to close channel."
ChannelClosingFailedText ==
    << "F", "a", "i", "l", "e", "d", " ", "t", "o", " ", "c", "l", "o",
       "s", "e", " ", "c", "h", "a", "n", "n", "e", "l", "." >>

\* NodeError::to_string
NodeErrorText(e) ==
    IF e = "InvalidAddress" THEN InvalidAddressText
    ELSE ChannelClosingFailedText

\* reqwest::Error values: send() fails with "connect" or "closed", bytes()
\* with "body"
SendErrors == { "connect", "closed" }

\* "error sending request"
ConnectErrorText ==
    << "e", "r", "r", "o", "r", " ", "s", "e", "n", "d", "i", "n", "g",
       " ", "r", "e", "q", "u", "e", "s", "t" >>

\* "connection closed"
ClosedErrorText ==
    << "c", "o", "n", "n", "e", "c", "t", "i", "o", "n", " ", "c", "l",
       "o", "s", "e", "d" >>

\* "error decoding response body"
BodyErrorText ==
    << "e", "r", "r", "o", "r", " ", "d", "e", "c", "o", "d", "i", "n",
       "g", " ", "r", "e", "s", "p", "o", "n", "s", "e", " ", "b", "o",
       "d", "y" >>

\* reqwest::Error::to_string
TransportErrorText(e) ==
    CASE e = "connect" -> ConnectErrorText
      [] e = "closed"  -> ClosedErrorText
      [] e = "body"    -> BodyErrorText

\* prost::DecodeError::to_string
\* "failed to decode Protobuf message"
DecodeErrorText ==
    << "f", "a", "i", "l", "e", "d", " ", "t", "o", " ", "d", "e", "c",
       "o", "d", "e", " ", "P", "r", "o", "t", "o", "b", "u", "f", " ",
       "m", "e", "s", "s", "a", "g", "e" >>

\* paths of raw inbound requests: the three the service matches, one the
\* client knows and the service does not, and near misses of a matched one
\* "/DoesNotExist"
PathDoesNotExist ==
    << "/", "D", "o", "e", "s", "N", "o", "t", "E", "x", "i", "s", "t" >>

\* "/CloseChannel"
PathCloseChannel ==
    << "/", "C", "l", "o", "s", "e", "C", "h", "a", "n", "n", "e", "l" >>

\* "/onchainreceive"
PathLowerCase ==
    << "/", "o", "n", "c", "h", "a", "i", "n", "r", "e", "c", "e", "i",
       "v", "e" >>

\* "/x/OnchainReceive"
PathPrefixed ==
    << "/", "x", "/", "O", "n", "c", "h", "a", "i", "n", "R", "e", "c",
       "e", "i", "v", "e" >>

\* "/OnchainReceiveX"
PathSuffixed ==
    << "/", "O", "n", "c", "h", "a", "i", "n", "R", "e", "c", "e", "i",
       "v", "e", "X" >>

\* "/OnchainReceive/x"
PathSegment ==
    << "/", "O", "n", "c", "h", "a", "i", "n", "R", "e", "c", "e", "i",
       "v", "e", "/", "x" >>

\* "/Onchain"
PathTruncated ==
    << "/", "O", "n", "c", "h", "a", "i", "n" >>

RawPaths ==
    { API_ONCHAIN_RECEIVE_PATH, API_ONCHAIN_SEND_PATH, API_BOLT11_RECEIVE_PATH,
      PathDoesNotExist, PathCloseChannel, PathLowerCase, PathPrefixed,
      PathSuffixed, PathSegment, PathTruncated }

\* bodies of raw inbound requests: an encoded message, a truncated field
\* (key without value) and plain text
RawBodies ==
    { Encode(Msg("any", "Request", MaxVal)),
      EncodeVarint(FieldNo * 8 + WireVarint),
      into_bytes(ErrorParsingRequest) }

NoHeader == << >>

\* "text/plain"
TextPlain ==
    << "t", "e", "x", "t", "/", "p", "l", "a", "i", "n" >>

\* Content-Type of raw inbound requests: the client's, another one, none
RawContentTypes == { APPLICATION_OCTET_STREAM, TextPlain, NoHeader }

\* responses a client may receive from an endpoint that is not this service
ForeignResponses ==
    { [status |-> 204, body |-> << >>],
      [status |-> 200, body |-> EncodeVarint(FieldNo * 8 + WireVarint)],
      [status |-> 503, body |-> into_bytes(UnknownError)] }

(* --------------------------- server: service.rs ----------------------- *)

\* the paths NodeService::call has an arm for
RegisteredPaths ==
    { API_ONCHAIN_RECEIVE_PATH, API_ONCHAIN_SEND_PATH, API_BOLT11_RECEIVE_PATH }

\* mutant: a path is matched by its beginning (starts_with) instead of as
\* a whole
RoutePrefix(path) ==
    LET starts(p) == Len(p) <= Len(path) /\ SubSeq(path, 1, Len(p)) = p
    IN  CASE starts(API_ONCHAIN_RECEIVE_PATH) -> "onchain_receive"
          [] starts(API_ONCHAIN_SEND_PATH)    -> "onchain_send"
          [] starts(API_BOLT11_RECEIVE_PATH)  -> "bolt11_receive"
          [] OTHER                            -> "none"

\* the match of NodeService::call: the operation whose handler the request
\* is handed to, "none" for the catch-all arm
Route(path) ==
    CASE path = API_ONCHAIN_RECEIVE_PATH -> "onchain_receive"
      [] path = API_ONCHAIN_SEND_PATH    -> "onchain_send"
      [] path = API_BOLT11_RECEIVE_PATH  -> "bolt11_receive"
      [] OTHER                           -> "none"

Response(status, body) == [status |-> status, body |-> body]

NoResponse == Response(0, << >>)

\* mutant: the catch-all arm's text leaves the path out
UnknownRequestResponseNoPath(path) ==
    Response(BAD_REQUEST, into_bytes(UnknownRequestPrefix))

\* the catch-all arm of NodeService::call
UnknownRequestResponse(path) ==
    Response(BAD_REQUEST, into_bytes(UnknownRequestPrefix \o path))

\* handle_request, T::decode failed
ParseErrorResponse ==
    Response(BAD_REQUEST, into_bytes(ErrorParsingRequest))

\* mutant: the success response is built without the encoded message
SuccessResponseEmpty(r) ==
    Response(OK, << >>)

\* handle_request, the handler returned Ok(response)
SuccessResponse(r) ==
    Response(OK, Encode(r))

\* mutant: an application failure is answered as 502 Bad Gateway
FailureResponseBadGateway(e) ==
    Response(502, into_bytes(NodeErrorText(e)))

\* handle_request, the handler returned Err(e)
FailureResponse(e) ==
    Response(INTERNAL_SERVER_ERROR, into_bytes(NodeErrorText(e)))

\* a handler's return value: Result<R, NodeError>
HandlerOk(r) == [ok |-> TRUE, val |-> r, err |-> "none"]

HandlerErr(e) == [ok |-> FALSE, val |-> NoMsg, err |-> e]

NoReturn == [ok |-> FALSE, val |-> NoMsg, err |-> "none"]

\* mutant: an application failure is answered like a parse error
HandlerResponseErrAsParse(ret) ==
    IF ret.ok THEN SuccessResponse(ret.val) ELSE ParseErrorResponse

\* the response handle_request builds from the handler's return value
HandlerResponse(ret) ==
    IF ret.ok THEN SuccessResponse(ret.val) ELSE FailureResponse(ret.err)

(* --------------------------- client: client.rs ------------------------ *)

\* Result<Rs, LdkNodeServerError>
ClientOk(v) == [ok |-> TRUE, val |-> v, err |-> << >>]

\* Err(LdkNodeServerError::InternalError(text))
InternalError(text) == [ok |-> FALSE, val |-> NoMsg, err |-> text]

NoResult == [ok |-> FALSE, val |-> NoMsg, err |-> << >>]

\* crate::error: From<reqwest::Error> for LdkNodeServerError
FromReqwestError(e) == InternalError(TransportErrorText(e))

\* crate::error: From<prost::DecodeError> for LdkNodeServerError
FromDecodeError == InternalError(DecodeErrorText)

\* StatusCode::is_success
is_success(status) == status >= 200 /\ status < 300

\* mutant: only a 5xx status counts as a failure
StubResultOnly5xx(o, status, payload) ==
    IF status < 500
    THEN LET d == Decode(o, "Response", payload)
         IN  IF d.ok THEN ClientOk(d.msg) ELSE FromDecodeError
    ELSE InternalError(UnknownError)

\* mutant: a success returns Rs::default() instead of the decoded payload
StubResultDefault(o, status, payload) ==
    IF is_success(status)
    THEN ClientOk(Msg(o, "Response", 0))
    ELSE InternalError(UnknownError)

\* mutant: a success payload that fails to decode is returned as
\* Rs::default()
StubResultDefaultOnDecodeError(o, status, payload) ==
    IF is_success(status)
    THEN LET d == Decode(o, "Response", payload)
         IN  IF d.ok THEN ClientOk(d.msg) ELSE ClientOk(Msg(o, "Response", 0))
    ELSE InternalError(UnknownError)

\* post_request once status and payload are in hand
StubResult(o, status, payload) ==
    IF is_success(status)
    THEN LET d == Decode(o, "Response", payload)
         IN  IF d.ok THEN ClientOk(d.msg) ELSE FromDecodeError
    ELSE InternalError(UnknownError)

(* ------------------------------- state -------------------------------- *)

\* calls[c]: one call, from the stub (or a raw http client) to its end:
\*   pc      "idle", "sent" (request on the wire), "collect" (handle_request
\*           awaits the body), "handler" (the handler runs), "responded" (a
\*           response is on the wire), "srv_err" (handle_request returned
\*           Err(hyper::Error)), "done" (the stub returned)
\*   kind    "stub": made by a client stub, "raw": any other http client
\*   op, arg the stub method called and its request value
\*   path, ctype, body   the http request
\*   seen    the request reached NodeService::call
\*   bound   the operation whose handler NodeService::call bound
\*   read    collect() of the request body: "none", "ok" or "failed"
\*   hArg, hRet   what the handler was invoked with and what it returned
\*   via     who produced resp: "service" or "foreign"
\*   resp    the http response
\*   post    the stub's http exchange: "none", "failed" (send() returned
\*           Err), "ok" (status and payload read) or "body_failed"
\*   sendErr the error send() returned
\*   result  what the stub returned
\*   posts   how many times the stub issued the http POST
\*   invoked how many times the dispatcher invoked the bound handler
\* node: the shared ldk_node::Node behind the Arc, as far as this layer
\*   sees it: the handler invocations made on it
VARIABLES calls, node

vars == << calls, node >>

IdleCall ==
    [pc |-> "idle", kind |-> "none", op |-> "none", arg |-> NoMsg,
     path |-> << >>, ctype |-> NoHeader, body |-> << >>, seen |-> FALSE,
     bound |-> "none", read |-> "none", hArg |-> NoMsg, hRet |-> NoReturn,
     via |-> "none", resp |-> NoResponse, post |-> "none",
     sendErr |-> "none", result |-> NoResult, posts |-> 0, invoked |-> 0]

Init ==
    /\ calls = [c \in 1..NCalls |-> IdleCall]
    /\ node = {}

\* client.rs: a stub method up to send(): url, encode_to_vec, header, body
StubCall(c, o, x) ==
    /\ calls[c].pc = "idle"
    /\ calls' = [calls EXCEPT ![c] =
          [@ EXCEPT !.pc = "sent", !.kind = "stub", !.op = o, !.arg = x,
                    !.path = UriPath(StubUrl(o)),
                    !.ctype = APPLICATION_OCTET_STREAM,
                    !.body = Encode(x), !.posts = @ + 1]]
    /\ UNCHANGED node

\* an http client other than the stubs posts path, content type and body
RawRequest(c, p, t, b) ==
    /\ calls[c].pc = "idle"
    /\ calls' = [calls EXCEPT ![c] =
          [@ EXCEPT !.pc = "sent", !.kind = "raw", !.path = p, !.ctype = t,
                    !.body = b]]
    /\ UNCHANGED node

\* mutant: a failed send() is retried once before the error is returned
SendFailedRetries(c, e) ==
    /\ calls[c].pc = "sent"
    /\ calls[c].kind = "stub"
    /\ calls' = [calls EXCEPT ![c] =
          IF calls[c].posts < 2
          THEN [@ EXCEPT !.posts = @ + 1]
          ELSE [@ EXCEPT !.pc = "done", !.post = "failed", !.sendErr = e,
                         !.result = InternalError(TransportErrorText(e))]]
    /\ UNCHANGED node

\* mutant: a failed send() is reported as the generic error
SendFailedGeneric(c, e) ==
    /\ calls[c].pc = "sent"
    /\ calls[c].kind = "stub"
    /\ calls' = [calls EXCEPT ![c] =
          [@ EXCEPT !.pc = "done", !.post = "failed", !.sendErr = e,
                    !.result = InternalError(UnknownError)]]
    /\ UNCHANGED node

\* post_request: send() returned Err(e)
SendFailed(c, e) ==
    /\ calls[c].pc = "sent"
    /\ calls[c].kind = "stub"
    /\ calls' = [calls EXCEPT ![c] =
          [@ EXCEPT !.pc = "done", !.post = "failed", !.sendErr = e,
                    !.result = InternalError(TransportErrorText(e))]]
    /\ UNCHANGED node

\* mutant: the body is read and checked before the path is looked up
ServiceCallCollectFirst(c) ==
    /\ calls[c].pc = "sent"
    /\ LET o == Route(calls[c].path)
           d == Decode("none", "Request", calls[c].body)
       IN  calls' = [calls EXCEPT ![c] =
              IF o = "none"
              THEN [@ EXCEPT !.pc = "responded", !.seen = TRUE,
                             !.read = "ok", !.via = "service",
                             !.resp = IF d.ok
                                      THEN UnknownRequestResponse(calls[c].path)
                                      ELSE ParseErrorResponse]
              ELSE [@ EXCEPT !.pc = "collect", !.seen = TRUE, !.bound = o]]
    /\ UNCHANGED node

\* mutant: a request whose Content-Type is not application/octet-stream is
\* rejected
ServiceCallChecksContentType(c) ==
    /\ calls[c].pc = "sent"
    /\ LET o == Route(calls[c].path)
       IN  calls' = [calls EXCEPT ![c] =
              IF calls[c].ctype # APPLICATION_OCTET_STREAM
              THEN [@ EXCEPT !.pc = "responded", !.seen = TRUE,
                             !.via = "service", !.resp = ParseErrorResponse]
              ELSE IF o = "none"
              THEN [@ EXCEPT !.pc = "responded", !.seen = TRUE,
                             !.via = "service",
                             !.resp = UnknownRequestResponse(calls[c].path)]
              ELSE [@ EXCEPT !.pc = "collect", !.seen = TRUE, !.bound = o]]
    /\ UNCHANGED node

\* mutant: once a request was answered 400 or 500 the service answers 500 to
\* every request that follows
ServiceCallPoisoned(c) ==
    /\ calls[c].pc = "sent"
    /\ LET o == Route(calls[c].path)
           poisoned == \E d \in DOMAIN calls :
                          calls[d].via = "service" /\ calls[d].resp.status >= 400
       IN  calls' = [calls EXCEPT ![c] =
              IF poisoned
              THEN [@ EXCEPT !.pc = "responded", !.seen = TRUE,
                             !.via = "service",
                             !.resp = Response(INTERNAL_SERVER_ERROR, << >>)]
              ELSE IF o = "none"
              THEN [@ EXCEPT !.pc = "responded", !.seen = TRUE,
                             !.via = "service",
                             !.resp = UnknownRequestResponse(calls[c].path)]
              ELSE [@ EXCEPT !.pc = "collect", !.seen = TRUE, !.bound = o]]
    /\ UNCHANGED node

\* NodeService::call: bind the handler of the matched path, or answer the
\* catch-all arm's response
ServiceCall(c) ==
    /\ calls[c].pc = "sent"
    /\ LET o == Route(calls[c].path)
       IN  calls' = [calls EXCEPT ![c] =
              IF o = "none"
              THEN [@ EXCEPT !.pc = "responded", !.seen = TRUE,
                             !.via = "service",
                             !.resp = UnknownRequestResponse(calls[c].path)]
              ELSE [@ EXCEPT !.pc = "collect", !.seen = TRUE, !.bound = o]]
    /\ UNCHANGED node

\* mutant: the body is collected into a buffer the calls share, so a call
\* may find the bytes of the call next to it
CollectedBytesShared(c) ==
    calls[(c % Len(calls)) + 1].body

\* the bytes request.into_body().collect() yields to call c
CollectedBytes(c) == calls[c].body

\* the Arc<Node> handle_request of call c passes to the handler, after the
\* handler's invocation is made on it
NodeInvoked(c, o, request) == node \cup { [op |-> o, req |-> request] }

\* mutant: a body that fails to decode is handled as T::default()
HandleRequestDefaultOnError(c) ==
    /\ calls[c].pc = "collect"
    /\ LET d == Decode(calls[c].bound, "Request", CollectedBytes(c))
           request == IF d.ok THEN d.msg ELSE Msg(calls[c].bound, "Request", 0)
       IN  /\ calls' = [calls EXCEPT ![c] =
                  [@ EXCEPT !.pc = "handler", !.read = "ok", !.hArg = request,
                            !.invoked = @ + 1]]
           /\ node' = NodeInvoked(c, calls[c].bound, request)

\* mutant: the handler is invoked under a lock of the service, so the body of
\* a request is decoded only when no other request's handler is running
HandleRequestLocked(c) ==
    /\ calls[c].pc = "collect"
    /\ \A d \in DOMAIN calls : calls[d].pc # "handler"
    /\ LET d == Decode(calls[c].bound, "Request", CollectedBytes(c))
       IN  IF d.ok
           THEN /\ calls' = [calls EXCEPT ![c] =
                      [@ EXCEPT !.pc = "handler", !.read = "ok",
                                !.hArg = d.msg, !.invoked = @ + 1]]
                /\ node' = NodeInvoked(c, calls[c].bound, d.msg)
           ELSE /\ calls' = [calls EXCEPT ![c] =
                      [@ EXCEPT !.pc = "responded", !.read = "ok",
                                !.via = "service",
                                !.resp = ParseErrorResponse]]
                /\ UNCHANGED node

\* handle_request: the body arrived; decode it and invoke the handler, or
\* answer the parse error
HandleRequest(c) ==
    /\ calls[c].pc = "collect"
    /\ LET d == Decode(calls[c].bound, "Request", CollectedBytes(c))
       IN  IF d.ok
           THEN /\ calls' = [calls EXCEPT ![c] =
                      [@ EXCEPT !.pc = "handler", !.read = "ok",
                                !.hArg = d.msg, !.invoked = @ + 1]]
                /\ node' = NodeInvoked(c, calls[c].bound, d.msg)
           ELSE /\ calls' = [calls EXCEPT ![c] =
                      [@ EXCEPT !.pc = "responded", !.read = "ok",
                                !.via = "service",
                                !.resp = ParseErrorResponse]]
                /\ UNCHANGED node

\* handle_request: collect() failed, `?` returns Err(hyper::Error)
CollectFailed(c) ==
    /\ calls[c].pc = "collect"
    /\ calls' = [calls EXCEPT ![c] = [@ EXCEPT !.pc = "srv_err", !.read = "failed"]]
    /\ UNCHANGED node

\* what the handler of operation o may return
HandlerReturns(o) ==
    { HandlerOk(r) : r \in Responses(o) } \cup { HandlerErr(e) : e \in NodeErrors }

\* handle_request: the handler returned ret; build the response
HandlerReturn(c, ret) ==
    /\ calls[c].pc = "handler"
    /\ ret \in HandlerReturns(calls[c].bound)
    /\ calls' = [calls EXCEPT ![c] =
          [@ EXCEPT !.pc = "responded", !.hRet = ret, !.via = "service",
                    !.resp = HandlerResponse(ret)]]
    /\ UNCHANGED node

\* the url of a stub call is served by something else, which answers fr
ForeignRespond(c, fr) ==
    /\ calls[c].pc = "sent"
    /\ calls[c].kind = "stub"
    /\ calls' = [calls EXCEPT ![c] =
          [@ EXCEPT !.pc = "responded", !.via = "foreign", !.resp = fr]]
    /\ UNCHANGED node

\* post_request: the service ended the call without a response, so send()
\* returned Err(e)
ConnectionClosed(c) ==
    /\ calls[c].pc = "srv_err"
    /\ calls[c].kind = "stub"
    /\ calls' = [calls EXCEPT ![c] =
          [@ EXCEPT !.pc = "done", !.post = "failed", !.sendErr = "closed",
                    !.result = InternalError(TransportErrorText("closed"))]]
    /\ UNCHANGED node

\* post_request: the response arrived, status() and bytes() succeeded
StubReceive(c) ==
    /\ calls[c].pc = "responded"
    /\ calls[c].kind = "stub"
    /\ calls' = [calls EXCEPT ![c] =
          [@ EXCEPT !.pc = "done", !.post = "ok",
                    !.result = StubResult(calls[c].op, calls[c].resp.status,
                                          calls[c].resp.body)]]
    /\ UNCHANGED node

\* post_request: the response arrived, bytes() failed and `?` returned
StubBodyFailed(c) ==
    /\ calls[c].pc = "responded"
    /\ calls[c].kind = "stub"
    /\ calls' = [calls EXCEPT ![c] =
          [@ EXCEPT !.pc = "done", !.post = "body_failed",
                    !.result = FromReqwestError("body")]]
    /\ UNCHANGED node

Next ==
    \/ \E c \in DOMAIN calls : \E o \in Ops : \E x \in Requests(o) :
          StubCall(c, o, x)
    \/ \E c \in DOMAIN calls : \E p \in RawPaths :
          \E t \in RawContentTypes : \E b \in RawBodies : RawRequest(c, p, t, b)
    \/ \E c \in DOMAIN calls : \E e \in SendErrors : SendFailed(c, e)
    \/ \E c \in DOMAIN calls : ServiceCall(c)
    \/ \E c \in DOMAIN calls : HandleRequest(c)
    \/ \E c \in DOMAIN calls : CollectFailed(c)
    \/ \E c \in DOMAIN calls : \E ret \in HandlerReturns(calls[c].bound) :
          HandlerReturn(c, ret)
    \/ \E c \in DOMAIN calls : \E fr \in ForeignResponses : ForeignRespond(c, fr)
    \/ \E c \in DOMAIN calls : ConnectionClosed(c)
    \/ \E c \in DOMAIN calls : StubReceive(c)
    \/ \E c \in DOMAIN calls : StubBodyFailed(c)

Spec == Init /\ [][Next]_vars

(* NConc concurrent stub calls on one service, call c to the c-th operation *)

OpList ==
    << "onchain_receive", "onchain_send", "bolt11_receive", "bolt11_send",
       "bolt12_receive", "bolt12_send", "open_channel", "close_channel",
       "list_channels" >>

ConcOp(c) == OpList[((c - 1) % Len(OpList)) + 1]

InitConc ==
    /\ calls = [c \in 1..NConc |-> IdleCall]
    /\ node = {}

NextConc ==
    \/ \E c \in DOMAIN calls : \E x \in Requests(ConcOp(c)) :
          StubCall(c, ConcOp(c), x)
    \/ \E c \in DOMAIN calls : \E e \in SendErrors : SendFailed(c, e)
    \/ \E c \in DOMAIN calls : ServiceCall(c)
    \/ \E c \in DOMAIN calls : HandleRequest(c)
    \/ \E c \in DOMAIN calls : CollectFailed(c)
    \/ \E c \in DOMAIN calls : \E ret \in HandlerReturns(calls[c].bound) :
          HandlerReturn(c, ret)
    \/ \E c \in DOMAIN calls : ConnectionClosed(c)
    \/ \E c \in DOMAIN calls : StubReceive(c)
    \/ \E c \in DOMAIN calls : StubBodyFailed(c)

SpecConc == InitConc /\ [][NextConc]_vars

(* the concurrent calls, each request's future polled by the hosting http
   layer: a request that was sent is looked up, and a body that arrives
   completely is decoded. A handler need not return, and a body's stream
   may fail instead of arriving. *)

SpecConcFair ==
    /\ SpecConc
    /\ \A c \in 1..NConc : WF_vars(ServiceCall(c))
    /\ \A c \in 1..NConc : WF_vars(HandleRequest(c))

(* one raw http client (call 1) beside NConc - 1 concurrent stub calls *)

NextMixed ==
    \/ \E p \in RawPaths : \E t \in RawContentTypes : \E b \in RawBodies :
          RawRequest(1, p, t, b)
    \/ \E c \in DOMAIN calls \ { 1 } : \E x \in Requests(ConcOp(c - 1)) :
          StubCall(c, ConcOp(c - 1), x)
    \/ \E c \in DOMAIN calls : \E e \in SendErrors : SendFailed(c, e)
    \/ \E c \in DOMAIN calls : ServiceCall(c)
    \/ \E c \in DOMAIN calls : HandleRequest(c)
    \/ \E c \in DOMAIN calls : CollectFailed(c)
    \/ \E c \in DOMAIN calls : \E ret \in HandlerReturns(calls[c].bound) :
          HandlerReturn(c, ret)
    \/ \E c \in DOMAIN calls : ConnectionClosed(c)
    \/ \E c \in DOMAIN calls : StubReceive(c)
    \/ \E c \in DOMAIN calls : StubBodyFailed(c)

SpecMixed == InitConc /\ [][NextMixed]_vars

(* ------------------------------ claims -------------------------------- *)

\* sub occurs in bytes as a contiguous run
Contains(bytes, sub) ==
    \E i \in 1..(Len(bytes) - Len(sub) + 1) :
        SubSeq(bytes, i, i + Len(sub) - 1) = sub

\* the dispatcher's work on call c is over
ServiceEnded(c) ==
    calls[c].seen /\ calls[c].pc \notin { "collect", "handler" }

\* the handler invocations the calls' own records account for
NodeInvocations ==
    { [op |-> calls[c].bound, req |-> calls[c].hArg] :
        c \in { d \in DOMAIN calls : calls[d].hArg # NoMsg } }

\* C1: a request sent by an operation's client stub and delivered to the
\* dispatcher is routed to that same operation's handler and is never
\* answered as an unknown path, for each of the nine operations.
C1_OneToOne ==
    \A c \in DOMAIN calls :
        (calls[c].kind = "stub" /\ calls[c].seen) =>
            /\ calls[c].bound = calls[c].op
            /\ calls[c].resp # UnknownRequestResponse(calls[c].path)

\* C2 as stated: whenever the dispatcher's work on a request is over, it
\* has returned a response whose status is 200, 400 or 500, whatever the
\* outcome of reading the body.
C2_Total ==
    \A c \in DOMAIN calls :
        ServiceEnded(c) =>
            /\ calls[c].via = "service"
            /\ calls[c].resp.status \in { 200, 400, 500 }

\* C2 amended: when the dispatcher's work on a request is over it has
\* returned a response whose status is 200, 400 or 500, unless the path
\* matched and reading the body failed: then the call ended with the
\* transport's error and no response.
C2_TotalWhenBodyRead ==
    \A c \in DOMAIN calls :
        ServiceEnded(c) =>
            IF calls[c].read = "failed"
            THEN /\ calls[c].path \in RegisteredPaths
                 /\ calls[c].resp = NoResponse
            ELSE /\ calls[c].via = "service"
                 /\ calls[c].resp.status \in { 200, 400, 500 }

\* C2 witness: a request whose body was read and decoded got its response
\* from the handler's return value
C2_Witness ==
    \E c \in DOMAIN calls :
        /\ ServiceEnded(c)
        /\ calls[c].read = "ok"
        /\ calls[c].hRet # NoReturn
        /\ calls[c].resp.status \in { 200, 500 }

\* C3 as stated: a stub call that received a response with a non-2xx status
\* returns exactly InternalError("Unknown Error"), whatever the outcome of
\* reading the body.
C3_Collapsed ==
    \A c \in DOMAIN calls :
        (/\ calls[c].post \in { "ok", "body_failed" }
         /\ ~(calls[c].resp.status >= 200 /\ calls[c].resp.status <= 299)) =>
            calls[c].result = InternalError(UnknownError)

\* C3 amended: a stub call that received a response with a non-2xx status
\* returns an error, and when the body of that response was read completely
\* the error is exactly InternalError("Unknown Error"), whatever the status
\* and the body.
C3_CollapsedWhenBodyRead ==
    \A c \in DOMAIN calls :
        (/\ calls[c].post \in { "ok", "body_failed" }
         /\ ~(calls[c].resp.status >= 200 /\ calls[c].resp.status <= 299)) =>
            /\ ~calls[c].result.ok
            /\ calls[c].post = "ok" =>
                  calls[c].result = InternalError(UnknownError)

\* C3 witness: the service's 400 with its own text body came back as the
\* generic error
C3_Witness ==
    \E c \in DOMAIN calls :
        /\ calls[c].post = "ok"
        /\ calls[c].resp.status = 400
        /\ calls[c].resp.body # into_bytes(UnknownError)
        /\ calls[c].result = InternalError(UnknownError)

\* C4: a request whose path matches no registered operation is answered
\* with status 400 and a body that contains the literal path, and no
\* handler is invoked for it.
C4_UnknownPath ==
    \A c \in DOMAIN calls :
        (calls[c].seen /\ calls[c].path \notin RegisteredPaths) =>
            /\ calls[c].via = "service"
            /\ calls[c].resp.status = 400
            /\ Contains(calls[c].resp.body, into_bytes(calls[c].path))
            /\ calls[c].bound = "none"
            /\ calls[c].hArg = NoMsg
            /\ calls[c].hRet = NoReturn
            /\ node = NodeInvocations

\* C4 witness: POST /DoesNotExist was answered
C4_Witness ==
    \E c \in DOMAIN calls :
        /\ calls[c].path = PathDoesNotExist
        /\ calls[c].pc = "responded"

\* C5: on a registered path, a body that fails to decode into the request
\* type is answered with status 400 and the fixed text "Error parsing
\* request"; the handler is not invoked and the shared node is untouched.
C5_MalformedBody ==
    \A c \in DOMAIN calls :
        (/\ calls[c].path \in RegisteredPaths
         /\ calls[c].read = "ok"
         /\ ~Decode(calls[c].bound, "Request", calls[c].body).ok) =>
            /\ calls[c].via = "service"
            /\ calls[c].resp = Response(400, into_bytes(ErrorParsingRequest))
            /\ calls[c].hArg = NoMsg
            /\ calls[c].hRet = NoReturn
            /\ node = NodeInvocations

\* C5 witness: a truncated body on /Bolt11Receive was answered
C5_Witness ==
    \E c \in DOMAIN calls :
        /\ calls[c].path = API_BOLT11_RECEIVE_PATH
        /\ calls[c].body = EncodeVarint(FieldNo * 8 + WireVarint)
        /\ calls[c].pc = "responded"

\* C6: when the handler returns an application failure the response is
\* status 500 with the failure's display text as body, and the dispatcher
\* answers 500 in no other case.
C6_HandlerFailure ==
    \A c \in DOMAIN calls :
        /\ calls[c].hRet.err # "none" =>
              calls[c].resp =
                  Response(500, into_bytes(NodeErrorText(calls[c].hRet.err)))
        /\ (calls[c].via = "service" /\ calls[c].resp.status = 500) =>
              calls[c].hRet.err \in NodeErrors

\* C6 witness: a handler failed with ChannelClosingFailed
C6_Witness ==
    \E c \in DOMAIN calls :
        /\ calls[c].hRet.err = "ChannelClosingFailed"
        /\ calls[c].resp.status = 500

\* C7: when the handler returns a success value r the response is status
\* 200 with a body that decodes to r, and the dispatcher answers 200 only
\* when the path matched, the body decoded and the handler returned success.
C7_Success ==
    \A c \in DOMAIN calls :
        /\ calls[c].hRet.ok =>
              /\ calls[c].resp.status = 200
              /\ Decode(calls[c].bound, "Response", calls[c].resp.body) =
                    [ok |-> TRUE, msg |-> calls[c].hRet.val]
        /\ (calls[c].via = "service" /\ calls[c].resp.status = 200) =>
              /\ calls[c].path \in RegisteredPaths
              /\ calls[c].read = "ok"
              /\ Decode(calls[c].bound, "Request", calls[c].body).ok
              /\ calls[c].hRet.ok

\* C7 witness: a handler returned a response with a non-default field
C7_Witness ==
    \E c \in DOMAIN calls :
        /\ calls[c].hRet.ok
        /\ calls[c].hRet.val.value > 0
        /\ calls[c].resp.status = 200

\* C8: with concurrent stub calls to distinct operations on one service,
\* in every interleaving, each call's handler is the one of its own
\* operation, invoked with its own request value, its response is built
\* from what that handler returned to it, and the stub returns the result
\* of that response and of no other call's.
C8_Isolation ==
    \A c \in DOMAIN calls :
        /\ calls[c].hArg # NoMsg =>
              /\ calls[c].bound = calls[c].op
              /\ calls[c].hArg = calls[c].arg
              /\ [op |-> calls[c].op, req |-> calls[c].arg] \in node
        /\ calls[c].hRet.ok =>
              /\ calls[c].hRet.val.op = calls[c].op
              /\ calls[c].resp = Response(200, Encode(calls[c].hRet.val))
        /\ (calls[c].hRet.ok /\ calls[c].post = "ok") =>
              calls[c].result = ClientOk(calls[c].hRet.val)
        /\ (calls[c].hRet.err # "none" /\ calls[c].pc = "done") =>
              ~calls[c].result.ok
        /\ node \subseteq
              { [op |-> calls[d].op, req |-> calls[d].arg] : d \in DOMAIN calls }

\* C8 witness: two calls with different request values are inside their
\* handlers at the same time
C8_Witness ==
    \E c, d \in DOMAIN calls :
        /\ c # d
        /\ calls[c].pc = "handler"
        /\ calls[d].pc = "handler"
        /\ calls[c].op # calls[d].op
        /\ calls[c].arg.value # calls[d].arg.value

\* C9: when a stub is called with request x, request and response cross
\* the transport unchanged and the handler returns success value r, the
\* handler was invoked with a request equal to x and the stub returns
\* Ok(r).
C9_RoundTrip ==
    \A c \in DOMAIN calls :
        /\ (calls[c].kind = "stub" /\ calls[c].hArg # NoMsg) =>
              calls[c].hArg = calls[c].arg
        /\ (calls[c].kind = "stub" /\ calls[c].hRet.ok /\ calls[c].post = "ok") =>
              /\ calls[c].result.ok
              /\ calls[c].result.val = calls[c].hRet.val
              /\ calls[c].result.err = << >>

\* C9 witness: a request and a response with non-default fields made the
\* round trip
C9_Witness ==
    \E c \in DOMAIN calls :
        /\ calls[c].kind = "stub"
        /\ calls[c].post = "ok"
        /\ calls[c].arg.value > 0
        /\ calls[c].hRet.ok
        /\ calls[c].hRet.val.value > 0

\* C10: when send() fails before any response is received the stub
\* returns InternalError carrying the transport error's description, and
\* never Ok.
C10_TransportFailure ==
    \A c \in DOMAIN calls :
        calls[c].post = "failed" =>
            /\ calls[c].pc = "done"
            /\ ~calls[c].result.ok
            /\ calls[c].result.val = NoMsg
            /\ calls[c].result.err = TransportErrorText(calls[c].sendErr)

\* C10 witness: the connection could not be made and no response exists
C10_Witness ==
    \E c \in DOMAIN calls :
        /\ calls[c].post = "failed"
        /\ calls[c].sendErr = "connect"
        /\ calls[c].resp = NoResponse

\* C11: a stub call returns Ok(v) exactly when a response with a 2xx
\* status was received and its body decodes to v; a 2xx response whose
\* body fails to decode yields a client error, never an Ok value.
C11_OkIffDecoded ==
    \A c \in DOMAIN calls :
        (calls[c].kind = "stub" /\ calls[c].pc = "done") =>
            LET received == calls[c].post = "ok"
                success == calls[c].resp.status >= 200 /\ calls[c].resp.status <= 299
                d == Decode(calls[c].op, "Response", calls[c].resp.body)
            IN  /\ calls[c].result.ok <=> (received /\ success /\ d.ok)
                /\ calls[c].result.ok => calls[c].result.val = d.msg
                /\ (received /\ success /\ ~d.ok) =>
                      /\ ~calls[c].result.ok
                      /\ calls[c].result.val = NoMsg
                      /\ calls[c].result.err # << >>

\* C11 witness: a 200 whose body is a truncated field came back as an error
C11_Witness ==
    \E c \in DOMAIN calls :
        /\ calls[c].post = "ok"
        /\ calls[c].resp.status = 200
        /\ ~Decode(calls[c].op, "Response", calls[c].resp.body).ok
        /\ ~calls[c].result.ok

\* C12: nothing is retried: a stub call issues its POST once and never
\* again, and the dispatcher invokes the bound handler at most once per
\* request, exactly once when the path matched and the body was read and
\* decoded, whatever the outcome of the POST or of the handler.
C12_NoRetry ==
    \A c \in DOMAIN calls :
        /\ calls[c].posts <= 1
        /\ calls[c].kind = "stub" => calls[c].posts = 1
        /\ calls[c].invoked <= 1
        /\ calls[c].invoked = 1 <=>
              /\ calls[c].path \in RegisteredPaths
              /\ calls[c].read = "ok"
              /\ Decode(calls[c].bound, "Request", calls[c].body).ok

\* C12 witness: a stub call whose handler failed has ended, after one POST
\* and one invocation
C12_Witness ==
    \E c \in DOMAIN calls :
        /\ calls[c].pc = "done"
        /\ calls[c].hRet.err \in NodeErrors
        /\ calls[c].posts = 1
        /\ calls[c].invoked = 1

\* C14: the path is looked up before the body is touched: a request with
\* an unknown path is answered 400 with a response that depends on the
\* path alone, without its body being read or decoded, and a body is read
\* only for a request whose path matched a registered operation.
C14_LookupFirst ==
    \A c \in DOMAIN calls :
        /\ (calls[c].seen /\ calls[c].path \notin RegisteredPaths) =>
              /\ calls[c].read = "none"
              /\ calls[c].pc \notin { "collect", "handler", "srv_err" }
              /\ calls[c].resp =
                    Response(400, into_bytes(UnknownRequestPrefix \o calls[c].path))
        /\ calls[c].read # "none" =>
              /\ calls[c].seen
              /\ calls[c].path \in RegisteredPaths
              /\ calls[c].bound # "none"

\* C14 witness: an unknown path with a body that does not decode was
\* answered without the body being read
C14_Witness ==
    \E c \in DOMAIN calls :
        /\ calls[c].path = PathDoesNotExist
        /\ ~Decode("none", "Request", calls[c].body).ok
        /\ calls[c].via = "service"
        /\ calls[c].read = "none"

\* p and q are equal character for character
SameText(p, q) ==
    Len(p) = Len(q) /\ \A i \in 1..Len(p) : p[i] = q[i]

\* text with its upper case letters turned to lower case
ToLower(text) ==
    [i \in 1..Len(text) |->
        IF \E k \in 1..Len(Upper) : Upper[k] = text[i]
        THEN Lower[CHOOSE k \in 1..Len(Upper) : Upper[k] = text[i]]
        ELSE text[i]]

IsPrefix(p, q) == Len(p) <= Len(q) /\ SubSeq(q, 1, Len(p)) = p

IsSuffix(p, q) ==
    Len(p) <= Len(q) /\ SubSeq(q, Len(q) - Len(p) + 1, Len(q)) = p

\* path is not the registered path r but differs from it only in letter
\* case, or has r at its beginning or at its end, or is a beginning of r
NearMiss(path, r) ==
    /\ ~SameText(path, r)
    /\ \/ ToLower(path) = ToLower(r)
       \/ IsPrefix(r, path)
       \/ IsSuffix(r, path)
       \/ IsPrefix(path, r)

\* the registered path of the operation a handler belongs to
PathOfHandler(o) ==
    CASE o = "onchain_receive" -> API_ONCHAIN_RECEIVE_PATH
      [] o = "onchain_send"    -> API_ONCHAIN_SEND_PATH
      [] o = "bolt11_receive"  -> API_BOLT11_RECEIVE_PATH

\* C15: a path selects an operation's handler only if it equals that
\* operation's registered path character for character; a path that
\* differs in case, has something before or after a registered path, or is
\* a proper prefix of one is answered 400 as unknown; and no path selects
\* more than one operation.
C15_ExactMatch ==
    \A c \in DOMAIN calls :
        /\ calls[c].bound # "none" =>
              /\ SameText(calls[c].path, PathOfHandler(calls[c].bound))
              /\ \A r \in RegisteredPaths :
                    SameText(calls[c].path, r) => r = PathOfHandler(calls[c].bound)
        /\ (/\ calls[c].seen
            /\ \E r \in RegisteredPaths : NearMiss(calls[c].path, r)
            /\ \A r \in RegisteredPaths : ~SameText(calls[c].path, r)) =>
              /\ calls[c].bound = "none"
              /\ calls[c].hArg = NoMsg
              /\ calls[c].via = "service"
              /\ calls[c].resp.status = 400

\* C15 witness: a registered path followed by a further segment was
\* answered
C15_Witness ==
    \E c \in DOMAIN calls :
        /\ calls[c].path = PathSegment
        /\ NearMiss(calls[c].path, API_ONCHAIN_RECEIVE_PATH)
        /\ calls[c].pc = "responded"

\* call c has failed: a 400 or 500 from the service, a request or response
\* lost by the transport
Failed(c) ==
    \/ calls[c].via = "service" /\ calls[c].resp.status \in { 400, 500 }
    \/ calls[c].pc = "srv_err"
    \/ calls[c].post \in { "failed", "body_failed" }

\* what call c is answered and returned, from its own request and its own
\* handler's return value alone
OwnOutcome(c) ==
    /\ calls[c].via = "service" =>
          calls[c].resp =
              IF calls[c].path \notin RegisteredPaths
              THEN Response(400, into_bytes(UnknownRequestPrefix \o calls[c].path))
              ELSE IF ~Decode("none", "Request", calls[c].body).ok
              THEN Response(400, into_bytes(ErrorParsingRequest))
              ELSE IF calls[c].hRet.ok
              THEN Response(200, Encode(calls[c].hRet.val))
              ELSE Response(500, into_bytes(NodeErrorText(calls[c].hRet.err)))
    /\ (calls[c].kind = "stub" /\ calls[c].post = "ok" /\ calls[c].hRet.ok) =>
          calls[c].result = ClientOk(calls[c].hRet.val)

\* C13: a failure is scoped to its call: a step of one call changes no
\* other call, the step at which a call fails changes nothing the calls
\* share, and whatever calls have failed before or beside it, every call
\* is answered from its own request and its own handler's return value.
C13_FailureScoped ==
    /\ [][\A c \in DOMAIN calls :
             /\ calls'[c] # calls[c] =>
                   /\ \A d \in DOMAIN calls \ { c } : calls'[d] = calls[d]
                   /\ node' \subseteq
                         node \cup { [op |-> calls'[c].bound,
                                      req |-> calls'[c].hArg] }
             /\ (~Failed(c) /\ Failed(c)') => node' = node
         ]_vars
    /\ [](\A c \in DOMAIN calls :
             (\E d \in DOMAIN calls \ { c } : Failed(d)) => OwnOutcome(c))

\* C13 witness: a raw request was answered 400 and a stub call's handler
\* failed, and a third outcome, a stub call's Ok, needs no more than the
\* calls at hand: here the stub call beside the 400 returned Ok
C13_Witness ==
    \E c, d \in DOMAIN calls :
        /\ c # d
        /\ calls[c].via = "service"
        /\ calls[c].resp.status = 400
        /\ calls[d].pc = "done"
        /\ calls[d].result.ok

\* C16: two requests with the same path and the same body whose
\* Content-Type headers differ (or of which one has none) are answered
\* with the same status and body, unless the handler ran for both and
\* returned differently to each.
C16_ContentTypeIgnored ==
    \A c, d \in DOMAIN calls :
        (/\ calls[c].path = calls[d].path
         /\ calls[c].body = calls[d].body
         /\ calls[c].ctype # calls[d].ctype
         /\ \/ calls[c].hRet = calls[d].hRet
            \/ calls[c].hRet = NoReturn
            \/ calls[d].hRet = NoReturn
         /\ calls[c].via = "service"
         /\ calls[d].via = "service") =>
            calls[d].resp = calls[c].resp

\* C16 witness: a request without Content-Type and the stub's request
\* with it, same path and body, were both answered 200
C16_Witness ==
    \E c, d \in DOMAIN calls :
        /\ calls[c].path = calls[d].path
        /\ calls[c].body = calls[d].body
        /\ calls[c].ctype = NoHeader
        /\ calls[d].ctype = APPLICATION_OCTET_STREAM
        /\ calls[c].resp.status = 200
        /\ calls[d].resp = calls[c].resp

=============================================================================
